---- MODULE Spec2Model ----
(***************************************************************************)
(* Model of the school-site crawler (crawler.py) and of the /ask pipeline  *)
(* (main.py).                                                              *)
(*                                                                         *)
(* Strings are modelled as sequences of atoms.  An atom is an indivisible  *)
(* piece of text (one character, or one of the words the code searches     *)
(* for); the string a sequence denotes is the concatenation of its atoms.  *)
(* Korean words of the source are written romanised between angle          *)
(* brackets, e.g. "<jeonhwa>" for the two-character word meaning "phone".  *)
(***************************************************************************)
EXTENDS Naturals, Sequences, FiniteSets

VARIABLES
    \* ---- crawler.py: crawl() ----
    START_URLS,     \* configured seed list
    MAX_PAGES,      \* configured page ceiling
    MAX_DEPTH,      \* configured depth ceiling
    queue,          \* deque of <<url, depth>>
    visited,        \* set of urls
    page_count,     \* accepted pages
    out,            \* lines appended to raw_pages.jsonl, one record each
    pc,             \* "loop" | "done" | "aborted" (uncaught exception)
    fetched,        \* log of the [FETCH] lines: urls given to fetch_html
    failed,         \* urls for which fetch_html returned None
    emptied,        \* urls whose page had no text left after cleaning
    found,          \* url -> absolute urls the anchors of its page resolve to
    \* ---- crawler.py: clean_lines() applied once and twice ----
    text, once, twice, cpc,
    \* ---- main.py: /ask ----
    STAFF_DB, SCHOOL_KNOWLEDGE, question, apc, response, llm_calls

crawlVars == <<START_URLS, MAX_PAGES, MAX_DEPTH, queue, visited, page_count,
               out, pc, fetched, failed, emptied, found>>
cleanVars == <<text, once, twice, cpc>>
askVars   == <<STAFF_DB, SCHOOL_KNOWLEDGE, question, apc, response, llm_calls>>
vars      == <<crawlVars, cleanVars, askVars>>

\* Python's None, where a string is expected
None == <<"None">>

(* The variables of the operations a specification leaves out *)

IdleCrawl ==
    /\ START_URLS = <<>> /\ MAX_PAGES = 0 /\ MAX_DEPTH = 0
    /\ queue = <<>> /\ visited = {} /\ page_count = 0 /\ out = <<>>
    /\ pc = "idle" /\ fetched = <<>> /\ failed = {} /\ emptied = {}
    /\ found = <<>>

IdleClean == text = <<>> /\ once = None /\ twice = None /\ cpc = "idle"

IdleAsk ==
    /\ STAFF_DB = <<>> /\ SCHOOL_KNOWLEDGE = <<>> /\ question = <<>>
    /\ apc = "idle" /\ response = None /\ llm_calls = 0

-----------------------------------------------------------------------------
(* Text atoms *)

SP  == " "
TAB == "\t"
NL  == "\n"
CR  == "\r"
GYEONGNAM    == "<gyeongsangnamdo>"     \* region name, 4 characters
GYOYUKCHEONG == "<gyoyukcheong>"        \* "education office", 3 characters
JEONHWA      == "<jeonhwa>"             \* "phone", 2 characters
PAEKSEU      == "<paekseu>"             \* "fax", 2 characters
MUDAN        == "<mudan jeonjae>"       \* "unauthorised reproduction", 5
JAEBAEPO     == "<jaebaepo geumji>"     \* "redistribution prohibited", 6
HOM          == "<hom> >"               \* "home >" in Korean, 3 characters

\* len() of the string an atom stands for
AtomLen(a) ==
    CASE a \in {SP, TAB, NL, CR, "x", "-"} -> 1
      [] a = "abc"        -> 3
      [] a = "Copyright"  -> 9
      [] a = "Home >"     -> 6
      [] a = GYEONGNAM    -> 4
      [] a = GYOYUKCHEONG -> 3
      [] a = JEONHWA      -> 2
      [] a = PAEKSEU      -> 2
      [] a = MUDAN        -> 5
      [] a = JAEBAEPO     -> 6
      [] a = HOM          -> 3

\* str.lower() of an atom
LowerAtom(a) ==
    CASE a = "Copyright" -> "copyright"
      [] a = "Home >"    -> "home >"
      [] a = ".PDF"      -> ".pdf"
      [] OTHER           -> a

Lower(s) == [i \in 1..Len(s) |-> LowerAtom(s[i])]

\* str.isspace(): what str.strip() removes
IsSpace(a) == a \in {SP, TAB, NL, CR}
\* the line boundaries of str.splitlines()
IsLineBreak(a) == a \in {NL, CR}

\* `tok in s` for a word tok the text alphabet keeps whole
Contains(s, tok) == \E i \in 1..Len(s) : s[i] = tok

RECURSIVE StrLen(_)
StrLen(s) == IF s = <<>> THEN 0 ELSE AtomLen(Head(s)) + StrLen(Tail(s))

RECURSIVE LStrip(_)
LStrip(s) == IF s # <<>> /\ IsSpace(Head(s)) THEN LStrip(Tail(s)) ELSE s

RECURSIVE RStrip(_)
RStrip(s) ==
    IF s # <<>> /\ IsSpace(s[Len(s)]) THEN RStrip(SubSeq(s, 1, Len(s) - 1))
    ELSE s

Strip(s) == RStrip(LStrip(s))

\* str.splitlines(): "\r\n" is one boundary, no empty last line
RECURSIVE SplitLines(_)
SplitLines(s) ==
    IF s = <<>> THEN <<>>
    ELSE IF \A i \in 1..Len(s) : ~IsLineBreak(s[i]) THEN <<s>>
    ELSE LET i == CHOOSE k \in 1..Len(s) :
                      /\ IsLineBreak(s[k])
                      /\ \A j \in 1..(k - 1) : ~IsLineBreak(s[j])
             e == IF s[i] = CR /\ i < Len(s) /\ s[i + 1] = NL THEN i + 1 ELSE i
         IN  <<SubSeq(s, 1, i - 1)>> \o SplitLines(SubSeq(s, e + 1, Len(s)))

\* "\n".join(lines)
RECURSIVE Join(_)
Join(lines) ==
    IF lines = <<>> THEN <<>>
    ELSE IF Len(lines) = 1 THEN lines[1]
    ELSE lines[1] \o <<NL>> \o Join(Tail(lines))

\* the `continue` conditions of clean_lines that look at one line only
IsNoise(ln) ==
    \/ ln = <<>>
    \/ StrLen(ln) <= 2
    \/ Contains(Lower(ln), "copyright")
    \/ Contains(ln, GYEONGNAM) /\ Contains(ln, GYOYUKCHEONG)
    \/ Contains(ln, JEONHWA) /\ Contains(ln, "-")
    \/ Contains(ln, PAEKSEU) /\ Contains(ln, "-")
    \/ Contains(ln, MUDAN) \/ Contains(ln, JAEBAEPO)
    \/ Contains(ln, HOM) \/ Contains(Lower(ln), "home >")

\* the adjacent-duplicate test compares with the line read just before,
\* kept or not
IsRepeat_PreviousLine(lines, i, cleaned_lines) ==
    i > 1 /\ lines[i - 1] = lines[i]

\* the adjacent-duplicate test of clean_lines: line i against the last kept
IsRepeat(lines, i, cleaned_lines) ==
    cleaned_lines # <<>> /\ cleaned_lines[Len(cleaned_lines)] = lines[i]

\* the for loop of clean_lines from line i on, with the lines kept so far
RECURSIVE KeepLines(_, _, _)
KeepLines(lines, i, cleaned_lines) ==
    IF i > Len(lines) THEN cleaned_lines
    ELSE IF IsNoise(lines[i]) \/ IsRepeat(lines, i, cleaned_lines)
         THEN KeepLines(lines, i + 1, cleaned_lines)
         ELSE KeepLines(lines, i + 1, Append(cleaned_lines, lines[i]))

\* no fallback: the join of no line
Fallback_Missing(t) == <<>>

\* what clean_lines returns when no line was kept
Fallback(t) == Strip(t)

clean_lines(t) ==
    LET lines == [i \in 1..Len(SplitLines(t)) |-> Strip(SplitLines(t)[i])]
        cleaned_lines == KeepLines(lines, 1, <<>>)
    IN  IF cleaned_lines = <<>> THEN Fallback(t) ELSE Join(cleaned_lines)

-----------------------------------------------------------------------------
(* URLs: the fields urlparse() gives, netloc and path as atom sequences *)

ALLOWED_DOMAIN == "ogya-h.gne.go.kr"

blocked_ext ==
    { ".pdf", ".hwp", ".hwpx", ".xls", ".xlsx", ".doc", ".docx", ".ppt",
      ".pptx", ".jpg", ".jpeg", ".png", ".gif", ".zip" }

Url(scheme, netloc, path) == [scheme |-> scheme, netloc |-> netloc, path |-> path]

UrlA   == Url("https", <<ALLOWED_DOMAIN>>, <<"/a">>)
UrlB   == Url("https", <<ALLOWED_DOMAIN>>, <<"/b">>)
UrlD   == Url("https", <<ALLOWED_DOMAIN>>, <<"/d">>)
UrlC   == Url("https", <<"other.org">>, <<"/c">>)
UrlPdf == Url("https", <<ALLOWED_DOMAIN>>, <<"/doc", ".PDF">>)
UrlBad == Url("http", <<"[">>, <<>>)

\* urlsplit raises ValueError("Invalid IPv6 URL") on an unbalanced bracket
UrlparseRaises(u) == Contains(u.netloc, "[") /\ ~Contains(u.netloc, "]")

is_allowed_url(u) ==
    IF UrlparseRaises(u) THEN FALSE
    ELSE IF u.scheme \notin {"http", "https"} THEN FALSE
    ELSE IF ~Contains(u.netloc, ALLOWED_DOMAIN) THEN FALSE
    ELSE IF u.path # <<>> /\ Lower(u.path)[Len(u.path)] \in blocked_ext THEN FALSE
    ELSE TRUE

(* href attributes of the anchors of a page *)

Href(kind, scheme, netloc, path) ==
    [kind |-> kind, scheme |-> scheme, netloc |-> netloc, path |-> path]

HrefA     == Href("relative", "", <<>>, <<"/a">>)
HrefB     == Href("relative", "", <<>>, <<"/b">>)
HrefPdf   == Href("relative", "", <<>>, <<"/doc", ".PDF">>)
HrefD     == Href("absolute", UrlD.scheme, UrlD.netloc, UrlD.path)   \* written in full
HrefC     == Href("absolute", UrlC.scheme, UrlC.netloc, UrlC.path)
HrefBad   == Href("absolute", UrlBad.scheme, UrlBad.netloc, UrlBad.path)
HrefFrag  == Href("fragment", "", <<>>, <<>>)         \* "#top"
HrefJs    == Href("javascript", "", <<>>, <<>>)       \* "JavaScript:void(0)"

Hrefs == {HrefA, HrefB, HrefPdf, HrefD, HrefC, HrefBad, HrefFrag, HrefJs}

\* the hrefs extract_links passes over without resolving them
SkippedHref(h) == h.kind \in {"empty", "fragment", "javascript"}

\* urljoin(base_url, href), for the href shapes above
urljoin(base, h) ==
    IF h.kind = "relative" THEN Url(base.scheme, base.netloc, h.path)
    ELSE Url(h.scheme, h.netloc, h.path)

\* urljoin parses the href: it raises where urlparse does
UrljoinRaises(base, h) == UrlparseRaises(urljoin(base, h))

\* extract_links raises: urljoin is called outside any try
ExtractRaises(base, hrefs) ==
    \E i \in 1..Len(hrefs) :
        ~SkippedHref(hrefs[i]) /\ UrljoinRaises(base, hrefs[i])

\* every resolved link is kept
KeepLink_Any(u) == TRUE

\* `if is_allowed_url(abs_url): links.append(abs_url)`
KeepLink(u) == is_allowed_url(u)

RECURSIVE extract_links(_, _)
extract_links(base, hrefs) ==
    IF hrefs = <<>> THEN <<>>
    ELSE LET h == Head(hrefs)
             rest == extract_links(base, Tail(hrefs))
         IN  IF SkippedHref(h) THEN rest
             ELSE IF KeepLink(urljoin(base, h))
                  THEN <<urljoin(base, h)>> \o rest
                  ELSE rest

\* the absolute urls the anchors of a page point to, before the filter
Resolved(base, hrefs) ==
    { urljoin(base, hrefs[i]) :
        i \in { j \in 1..Len(hrefs) : ~SkippedHref(hrefs[j]) } }

-----------------------------------------------------------------------------
(* crawl() *)

\* The configuration (START_URLS, MAX_PAGES, MAX_DEPTH) is drawn when the run
\* starts: with the values of the source file (100 pages, depth 3) the
\* ceilings are out of reach of a site of a few pages.
MaxSeeds == 2
MaxDepthLimit == 2
PageLimits == {1, 2, 10}

SeedUrls == {UrlA, UrlB, UrlC, UrlPdf, UrlBad}
AllUrls  == {UrlA, UrlB, UrlD, UrlC, UrlPdf, UrlBad}

\* what get_text() gives for the main region of a page: nothing, a sentence
\* followed by a copyright line, a copyright line only
PageTexts == { <<>>, <<"abc", NL, "Copyright">>, <<"Copyright">> }

\* the anchors of a page, in document order
HrefLists ==
    { <<>>,
      <<HrefB, HrefC, HrefPdf>>,
      <<HrefFrag, HrefB, HrefB, HrefD>>,
      <<HrefA, HrefJs, HrefD>>,
      <<HrefB, HrefBad, HrefD>> }

InitCrawl ==
    /\ START_URLS \in UNION { [1..n -> SeedUrls] : n \in 1..MaxSeeds }
    /\ MAX_PAGES \in PageLimits
    /\ MAX_DEPTH \in 0..MaxDepthLimit
    /\ visited = {}
    /\ out = <<>>
    /\ queue = [i \in 1..Len(START_URLS) |-> <<START_URLS[i], 0>>]
    /\ page_count = 0
    /\ pc = "loop"
    /\ fetched = <<>> /\ failed = {} /\ emptied = {}
    /\ found = [u \in AllUrls |-> {}]
    /\ IdleClean /\ IdleAsk

\* the ceiling is tested with <=
LoopCond_OffByOne == queue # <<>> /\ page_count <= MAX_PAGES

\* the while condition
LoopCond == queue # <<>> /\ page_count < MAX_PAGES

\* no re-visit guard
AlreadyVisited_Missing(url) == FALSE

AlreadyVisited(url) == url \in visited

\* one level too deep
OverDepth_OffByOne(depth) == depth > MAX_DEPTH + 1

OverDepth(depth) == depth > MAX_DEPTH

\* the links appended to the queue after a page was saved
NewTasks(links, seen, depth) ==
    LET fresh == SelectSeq(links, LAMBDA l : l \notin seen)
    IN  [i \in 1..Len(fresh) |-> <<fresh[i], depth + 1>>]

\* the record written for a page; its title and hash are computed from the
\* page and read by nothing in the loop
Record(url, depth, txt) == [url |-> url, depth |-> depth, text |-> txt]

\* `if url in visited: continue`
SkipVisited ==
    /\ pc = "loop" /\ LoopCond
    /\ AlreadyVisited(Head(queue)[1])
    /\ queue' = Tail(queue)
    /\ UNCHANGED <<START_URLS, MAX_PAGES, MAX_DEPTH, visited, page_count, out,
                   pc, fetched, failed, emptied, found, cleanVars, askVars>>

\* `if depth > MAX_DEPTH: continue`
SkipDepth ==
    /\ pc = "loop" /\ LoopCond
    /\ ~AlreadyVisited(Head(queue)[1])
    /\ OverDepth(Head(queue)[2])
    /\ queue' = Tail(queue)
    /\ visited' = visited \cup {Head(queue)[1]}
    /\ UNCHANGED <<START_URLS, MAX_PAGES, MAX_DEPTH, page_count, out,
                   pc, fetched, failed, emptied, found, cleanVars, askVars>>

\* `if not is_allowed_url(url): continue`
SkipNotAllowed ==
    /\ pc = "loop" /\ LoopCond
    /\ ~AlreadyVisited(Head(queue)[1])
    /\ ~OverDepth(Head(queue)[2])
    /\ ~is_allowed_url(Head(queue)[1])
    /\ queue' = Tail(queue)
    /\ visited' = visited \cup {Head(queue)[1]}
    /\ UNCHANGED <<START_URLS, MAX_PAGES, MAX_DEPTH, page_count, out,
                   pc, fetched, failed, emptied, found, cleanVars, askVars>>

\* the iteration gets as far as fetch_html(url)
Fetches ==
    /\ pc = "loop" /\ LoopCond
    /\ ~AlreadyVisited(Head(queue)[1])
    /\ ~OverDepth(Head(queue)[2])
    /\ is_allowed_url(Head(queue)[1])

\* the url is marked visited only after a fetch that gave a page
FetchFail_MarkAfterFetch ==
    /\ Fetches
    /\ queue' = Tail(queue)
    /\ fetched' = Append(fetched, Head(queue)[1])
    /\ failed' = failed \cup {Head(queue)[1]}
    /\ UNCHANGED <<START_URLS, MAX_PAGES, MAX_DEPTH, visited, page_count, out,
                   pc, emptied, found, cleanVars, askVars>>

\* fetch_html returns None (status other than 200, or an exception)
FetchFail ==
    /\ Fetches
    /\ queue' = Tail(queue)
    /\ visited' = visited \cup {Head(queue)[1]}
    /\ fetched' = Append(fetched, Head(queue)[1])
    /\ failed' = failed \cup {Head(queue)[1]}
    /\ UNCHANGED <<START_URLS, MAX_PAGES, MAX_DEPTH, page_count, out,
                   pc, emptied, found, cleanVars, askVars>>

\* `if not text: continue`
SkipEmptyText ==
    /\ Fetches
    /\ \E body \in PageTexts : clean_lines(body) = <<>>
    /\ queue' = Tail(queue)
    /\ visited' = visited \cup {Head(queue)[1]}
    /\ fetched' = Append(fetched, Head(queue)[1])
    /\ emptied' = emptied \cup {Head(queue)[1]}
    /\ UNCHANGED <<START_URLS, MAX_PAGES, MAX_DEPTH, page_count, out,
                   pc, failed, found, cleanVars, askVars>>

\* the record is written, the links of the page are queued
SavePage ==
    /\ Fetches
    /\ \E body \in PageTexts, hrefs \in HrefLists :
        LET url == Head(queue)[1]
            depth == Head(queue)[2]
        IN  /\ clean_lines(body) # <<>>
            /\ ~ExtractRaises(url, hrefs)
            /\ visited' = visited \cup {url}
            /\ fetched' = Append(fetched, url)
            /\ out' = Append(out, Record(url, depth, clean_lines(body)))
            /\ page_count' = page_count + 1
            /\ queue' = Tail(queue) \o
                        NewTasks(extract_links(url, hrefs), visited', depth)
            /\ found' = [found EXCEPT ![url] = Resolved(url, hrefs)]
    /\ UNCHANGED <<START_URLS, MAX_PAGES, MAX_DEPTH, pc, failed, emptied,
                   cleanVars, askVars>>

\* the record is written, then extract_links raises ValueError in urljoin:
\* nothing in crawl() catches it
SaveThenRaise ==
    /\ Fetches
    /\ \E body \in PageTexts, hrefs \in HrefLists :
        LET url == Head(queue)[1]
            depth == Head(queue)[2]
        IN  /\ clean_lines(body) # <<>>
            /\ ExtractRaises(url, hrefs)
            /\ visited' = visited \cup {url}
            /\ fetched' = Append(fetched, url)
            /\ out' = Append(out, Record(url, depth, clean_lines(body)))
            /\ page_count' = page_count + 1
            /\ queue' = Tail(queue)
            /\ found' = [found EXCEPT ![url] = Resolved(url, hrefs)]
    /\ pc' = "aborted"
    /\ UNCHANGED <<START_URLS, MAX_PAGES, MAX_DEPTH, failed, emptied,
                   cleanVars, askVars>>

\* the while condition is false: the final count is printed
Finish ==
    /\ pc = "loop" /\ ~LoopCond
    /\ pc' = "done"
    /\ UNCHANGED <<START_URLS, MAX_PAGES, MAX_DEPTH, queue, visited, page_count,
                   out, fetched, failed, emptied, found, cleanVars, askVars>>

Next ==
    \/ SkipVisited
    \/ SkipDepth
    \/ SkipNotAllowed
    \/ FetchFail
    \/ SkipEmptyText
    \/ SavePage
    \/ SaveThenRaise
    \/ Finish

Spec == InitCrawl /\ [][Next]_vars

\* the loop is one thread that runs until it returns or raises
FairSpec == Spec /\ WF_vars(Next)

RecordUrls == { out[i].url : i \in 1..Len(out) }

Seeds == { START_URLS[i] : i \in 1..Len(START_URLS) }

\* number of fetch_html calls made for url
FetchCount(url) == Cardinality({ i \in 1..Len(fetched) : fetched[i] = url })

\* C1: the output never holds two records with the same url, and no url is
\* given to fetch_html twice: later queue entries of a visited url are
\* discarded.
C1_NoDuplicateRecords ==
    /\ \A i, j \in 1..Len(out) : i # j => out[i].url # out[j].url
    /\ \A i, j \in 1..Len(fetched) : i # j => fetched[i] # fetched[j]

\* the seed is configured twice and its page links to /b twice; the run is
\* over, the queue is empty, and there is one record per page
C1_Witness ==
    /\ pc = "done" /\ queue = <<>>
    /\ START_URLS = <<UrlA, UrlA>>
    /\ found[UrlA] = {UrlB, UrlD}
    /\ RecordUrls = {UrlA, UrlB, UrlD}
    /\ Len(out) = 3

\* C2: a seed is never skipped by the URL filter (every seed that was
\* dequeued has been fetched), and the url of every record that is not a
\* seed passes the filter.
C2_SeedsExemptFromFilter ==
    /\ \A i \in 1..Len(START_URLS) :
          START_URLS[i] \in visited => Contains(fetched, START_URLS[i])
    /\ \A i \in 1..Len(out) :
          out[i].url \notin Seeds => is_allowed_url(out[i].url)

\* C5: the run ends at the line that prints the count.
C5_Terminates == <>(pc = "done")

\* the scenario of C6: seed /a, depth 1, 10 pages, /a links to /b, to
\* other.org/c and to /doc.PDF, and /b is a page with text
Scenario ==
    /\ pc = "done"
    /\ START_URLS = <<UrlA>> /\ MAX_DEPTH = 1 /\ MAX_PAGES = 10
    /\ found[UrlA] = {UrlB, UrlC, UrlPdf}
    /\ UrlB \notin failed \cup emptied

\* C6: only urls the filter accepts are fetched; a link the filter rejects is
\* never queued (queue entries of depth >= 1 all pass the filter), never
\* fetched and never recorded; in the scenario the records are those of /a
\* and /b, and neither other.org/c nor /doc.PDF was fetched.
C6_OnlyFilteredLinksFetched ==
    /\ \A i \in 1..Len(fetched) : is_allowed_url(fetched[i])
    /\ \A i \in 1..Len(queue) : queue[i][2] >= 1 => is_allowed_url(queue[i][1])
    /\ \A u \in AllUrls : \A v \in found[u] :
          ~is_allowed_url(v) => (~Contains(fetched, v) /\ v \notin RecordUrls)
    /\ Scenario =>
          /\ RecordUrls = {UrlA, UrlB}
          /\ Contains(fetched, UrlB)
          /\ ~Contains(fetched, UrlC) /\ ~Contains(fetched, UrlPdf)

C6_Witness ==
    /\ Scenario
    /\ RecordUrls = {UrlA, UrlB}
    /\ UrlC \notin visited /\ UrlPdf \notin visited

\* C7: a url whose fetch failed has no record, had no link queued, is marked
\* visited and was fetched exactly once; the failing iteration leaves the
\* counter and the output alone, only pops the queue, and the loop goes on.
C7_FetchFailureIsSoftSkip ==
    /\ [](\A u \in failed :
            /\ u \notin RecordUrls
            /\ u \in visited
            /\ found[u] = {}
            /\ FetchCount(u) = 1)
    /\ [][failed' # failed =>
            /\ page_count' = page_count
            /\ out' = out
            /\ queue' = Tail(queue)
            /\ pc' = "loop"]_vars

\* a fetch failed, and a url fetched after it was recorded
C7_Witness ==
    /\ pc = "done"
    /\ \E i, j \in 1..Len(fetched) :
          /\ i < j
          /\ fetched[i] \in failed
          /\ fetched[j] \in RecordUrls

\* C8: page_count never exceeds MAX_PAGES and equals the number of lines
\* written; once page_count = MAX_PAGES nothing is dequeued or fetched.
C8_PageCeiling ==
    /\ [](page_count <= MAX_PAGES /\ Len(out) = page_count)
    /\ [][page_count >= MAX_PAGES =>
            /\ queue' = queue
            /\ visited' = visited
            /\ fetched' = fetched]_vars

\* the run stopped on the ceiling with urls left in the queue
C8_Witness ==
    /\ pc = "done"
    /\ page_count = MAX_PAGES
    /\ queue # <<>>

\* C9: every record has a depth in 0..MAX_DEPTH; an unvisited entry deeper
\* than MAX_DEPTH is marked visited and dropped, with no fetch and no record.
C9_DepthCeiling ==
    /\ [](\A i \in 1..Len(out) : out[i].depth <= MAX_DEPTH)
    /\ [][(/\ pc = "loop"
           /\ queue # <<>> /\ page_count < MAX_PAGES
           /\ Head(queue)[1] \notin visited
           /\ Head(queue)[2] > MAX_DEPTH) =>
            /\ Head(queue)[1] \in visited'
            /\ fetched' = fetched
            /\ out' = out]_vars

\* /d was linked from a page recorded at depth MAX_DEPTH; it is visited and
\* was never fetched
C9_Witness ==
    /\ MAX_DEPTH = 1
    /\ UrlD \in visited /\ ~Contains(fetched, UrlD)
    /\ \E i \in 1..Len(out) :
          out[i].depth = MAX_DEPTH /\ UrlD \in found[out[i].url]

-----------------------------------------------------------------------------
(* main.py: the staff directory and the /ask handler *)

HAGNYEON     == "<hagnyeon>"        \* "grade" (school year)
BAN          == "<ban>"             \* "class"
DAMIM        == "<damim>"           \* "homeroom teacher"
GYOSA        == "<gyosa>"           \* "teacher"
SEONSAENG    == "<seonsaeng>"       \* "teacher" (form of address)
SEONSAENGNIM == "<seonsaengnim>"    \* SEONSAENG with the honorific suffix
BUJANG       == "<bujang>"          \* "department head"
GYOJANG      == "<gyojang>"         \* "principal"
GYOGAM       == "<gyogam>"          \* "vice-principal"
GUGEO        == "<gugeo>"           \* subject: Korean
SUHAK        == "<suhak>"           \* subject: mathematics
JEONGBO      == "<jeongbo>"         \* subject: informatics; also "information"
JUNGGUGEO    == "<junggugeo>"       \* subject: Chinese
JINRO        == "<jinrojinhakbu>"   \* a department
HAKGYO       == "<hakgyo>"          \* "school"
URIHAKGYO    == "<urihakgyo>"       \* "our school"

\* the words of the code's tables that occur inside an atom
Words(a) ==
    CASE a = SEONSAENGNIM -> {SEONSAENGNIM, SEONSAENG}
      [] a = JUNGGUGEO    -> {JUNGGUGEO, GUGEO}
      [] a = URIHAKGYO    -> {URIHAKGYO, HAKGYO}
      [] OTHER            -> {a}

\* `word in q`
InStr(q, word) == \E i \in 1..Len(q) : word \in Words(q[i])

\* the keys of subject_map, in insertion order (each maps to itself)
subject_map ==
    << GUGEO, SUHAK, "<yeongeo>", "<cheyuk>", "<mulli>", "<hwahak>",
       "<saengmyeonggwahak>", "<jigugwahak>", "<sahoe>", "<yeoksa>",
       "<yulli>", JEONGBO, JUNGGUGEO >>

dept_keywords ==
    << "<gyomugihoekbu>", JINRO, "<1hagnyeonbu>", "<2hagnyeonbu>",
       "<hangnyeogyeongubu>", "<gyoyukgwajeongbu>", "<anjeoninseongbu>",
       "<gisuksabu>" >>

SCHOOL_KEYWORDS ==
    << "<changnyeongogyago>", "<ogyago>", URIHAKGYO, HAKGYO, "<gyomusil>",
       "<haengjeongsil>", "<dongari>", "<haksa>", "<haksailjeong>",
       "<geupsik>", "<gyobok>", "<iphak>", "<haksaengsu>", "<siganpyo>",
       "<gyochik>", "<siseol>", "<cheyukgwan>", "<doseogwan>" >>

Teacher(name, subject, homeroom, departments, roles) ==
    [name |-> name, subject |-> subject, homeroom |-> homeroom,
     departments |-> departments, roles |-> roles]

Staff(name, role) == [name |-> name, role |-> role]

\* the sentences answer_from_staff_db builds
SubjectSentence(subject, names) == <<subject, " teacher is ">> \o names
HomeroomSentence(grade, cls, name) ==
    <<grade, HAGNYEON, SP, cls, BAN, SP, DAMIM, " is ", name>>
DeptSentence(dept, name) == <<dept, SP, BUJANG, " is ", name>>
PrincipalSentence(name) == <<GYOJANG, " is ", name>>
ViceSentence(name) == <<GYOGAM, " is ", name>>

\* the homeroom branch gives no answer when no teacher has the code
HomeroomMissing_None(grade, cls) == None

\* the "not in data" sentence
HomeroomMissing(grade, cls) ==
    <<grade, HAGNYEON, SP, cls, BAN, SP, DAMIM, " is not in the data">>

\* \s* from position k: the first position that is not whitespace
RECURSIVE SkipSpaces(_, _)
SkipSpaces(q, k) ==
    IF k <= Len(q) /\ IsSpace(q[k]) THEN SkipSpaces(q, k + 1) ELSE k

\* ([1-3])<hagnyeon>\s*([1-4])<ban> matches at position i
MatchesGradeClass(q, i) ==
    /\ q[i] \in {"1", "2", "3"}
    /\ i + 1 <= Len(q) /\ q[i + 1] = HAGNYEON
    /\ LET j == SkipSpaces(q, i + 2)
       IN  j + 1 <= Len(q) /\ q[j] \in {"1", "2", "3", "4"} /\ q[j + 1] = BAN

\* ([1-3])[- ]\s*([1-4])<ban>? matches at position i
MatchesShortCode(q, i) ==
    /\ q[i] \in {"1", "2", "3"}
    /\ i + 1 <= Len(q) /\ q[i + 1] \in {"-", SP}
    /\ LET j == SkipSpaces(q, i + 2)
       IN  j <= Len(q) /\ q[j] \in {"1", "2", "3", "4"}

Least(S) == CHOOSE i \in S : \A j \in S : i <= j

\* the two re.search calls: the groups of the leftmost match, <<>> if none
HomeroomCode(q) ==
    LET m1 == { i \in 1..Len(q) : MatchesGradeClass(q, i) }
        m2 == { i \in 1..Len(q) : MatchesShortCode(q, i) }
    IN  IF m1 # {} THEN <<q[Least(m1)], q[SkipSpaces(q, Least(m1) + 2)]>>
        ELSE IF m2 # {} THEN <<q[Least(m2)], q[SkipSpaces(q, Least(m2) + 2)]>>
        ELSE <<>>

\* branch 1: subject teachers
SubjectAnswer(db, q) ==
    LET NamesOf(subject) ==
            LET ts == SelectSeq(db.teachers, LAMBDA t : t.subject = subject)
            IN  [i \in 1..Len(ts) |-> ts[i].name]
        hits == { k \in 1..Len(subject_map) :
                    /\ InStr(q, subject_map[k])
                    /\ InStr(q, GYOSA) \/ InStr(q, SEONSAENG)
                    /\ NamesOf(subject_map[k]) # <<>> }
    IN  IF hits = {} THEN None
        ELSE SubjectSentence(subject_map[Least(hits)],
                             NamesOf(subject_map[Least(hits)]))

\* branch 2: homeroom teacher of a class
HomeroomAnswer(db, q) ==
    LET code == HomeroomCode(q)
        ts == SelectSeq(db.teachers, LAMBDA t : t.homeroom = code)
    IN  IF code # <<>> /\ InStr(q, DAMIM)
        THEN IF ts # <<>> THEN HomeroomSentence(code[1], code[2], ts[1].name)
             ELSE HomeroomMissing(code[1], code[2])
        ELSE None

\* branch 3: head of a department
DeptAnswer(db, q) ==
    LET Heads(dept) ==
            SelectSeq(db.teachers, LAMBDA t :
                /\ \E i \in 1..Len(t.departments) : t.departments[i] = dept
                /\ \E i \in 1..Len(t.roles) : InStr(t.roles[i], BUJANG))
        hits == { k \in 1..Len(dept_keywords) :
                    /\ InStr(q, dept_keywords[k]) /\ InStr(q, BUJANG)
                    /\ Heads(dept_keywords[k]) # <<>> }
    IN  IF hits = {} THEN None
        ELSE DeptSentence(dept_keywords[Least(hits)],
                          Heads(dept_keywords[Least(hits)])[1].name)

\* branch 4: principal, vice-principal
PrincipalAnswer(db, q) ==
    LET ss == SelectSeq(db.staff, LAMBDA x : InStr(x.role, GYOJANG))
    IN  IF InStr(q, GYOJANG) /\ ss # <<>> THEN PrincipalSentence(ss[1].name)
        ELSE None

ViceAnswer(db, q) ==
    LET ss == SelectSeq(db.staff, LAMBDA x : InStr(x.role, GYOGAM))
    IN  IF InStr(q, GYOGAM) /\ ss # <<>> THEN ViceSentence(ss[1].name)
        ELSE None

answer_from_staff_db(db, q0) ==
    LET q == Strip(q0)
    IN  IF SubjectAnswer(db, q) # None THEN SubjectAnswer(db, q)
        ELSE IF HomeroomAnswer(db, q) # None THEN HomeroomAnswer(db, q)
        ELSE IF DeptAnswer(db, q) # None THEN DeptAnswer(db, q)
        ELSE IF PrincipalAnswer(db, q) # None THEN PrincipalAnswer(db, q)
        ELSE ViceAnswer(db, q)

is_school_question(q) ==
    \E k \in 1..Len(SCHOOL_KEYWORDS) :
        InStr(Lower(q), LowerAtom(SCHOOL_KEYWORDS[k]))

(* the requests *)

MaxParts == 3

\* the pieces questions are made of
Phrases ==
    { <<"1", HAGNYEON, SP, "3", BAN>>,
      <<"1", "-", "3", BAN>>,
      <<"2", SP, "4">>,
      <<"1", HAGNYEON, SP, "5", BAN>>,
      <<SP, DAMIM>>,
      <<SP, DAMIM, SP, SEONSAENGNIM>>,
      <<SP, SUHAK, SP, GYOSA>>,
      <<SP, JEONGBO>>,
      <<SP, GYOJANG>>,
      <<SP, URIHAKGYO>>,
      <<SP, JINRO, SP, BUJANG>>,
      <<SP>>,
      <<"hello">> }

RECURSIVE Concat(_)
Concat(parts) == IF parts = <<>> THEN <<>> ELSE Head(parts) \o Concat(Tail(parts))

Questions == { Concat(ps) : ps \in UNION { [1..n -> Phrases] : n \in 0..MaxParts } }

\* staff.json missing; a staffed school; a school whose class 1-3 has no
\* homeroom teacher on record
Directories ==
    { [teachers |-> <<>>, staff |-> <<>>],
      [teachers |->
         << Teacher("Kim", SUHAK, <<"1", "3">>, <<>>, <<>>),
            Teacher("Lee", JEONGBO, <<"2", "4">>, <<JINRO>>, <<<<JINRO, BUJANG>>>>) >>,
       staff |-> << Staff("Park", <<GYOJANG>>), Staff("Choi", <<GYOGAM>>) >>],
      [teachers |->
         << Teacher("Han", GUGEO, <<>>, <<>>, <<>>),
            Teacher("Lee", SUHAK, <<"2", "4">>, <<>>, <<>>) >>,
       staff |-> <<>>] }

\* school_knowledge.txt missing or empty; present
Knowledge == { <<>>, <<"abc">> }

Response(status, body) == [status |-> status, body |-> body]

InitAsk ==
    /\ STAFF_DB \in Directories
    /\ SCHOOL_KNOWLEDGE \in Knowledge
    /\ question \in Questions
    /\ apc = "received"
    /\ response = None
    /\ llm_calls = 0
    /\ IdleCrawl /\ IdleClean

\* `if not q: raise HTTPException(400)`
AskEmpty ==
    /\ apc = "received"
    /\ Strip(question) = <<>>
    /\ response' = Response(400, <<"question is empty">>)
    /\ apc' = "done"
    /\ UNCHANGED <<STAFF_DB, SCHOOL_KNOWLEDGE, question, llm_calls,
                   crawlVars, cleanVars>>

\* step 1: the directory has an answer
AskStaff ==
    /\ apc = "received"
    /\ Strip(question) # <<>>
    /\ answer_from_staff_db(STAFF_DB, Strip(question)) # None
    /\ response' = Response(200, answer_from_staff_db(STAFF_DB, Strip(question)))
    /\ apc' = "done"
    /\ UNCHANGED <<STAFF_DB, SCHOOL_KNOWLEDGE, question, llm_calls,
                   crawlVars, cleanVars>>

\* the handler gets past the directory lookup
PastDirectory ==
    /\ apc = "received"
    /\ Strip(question) # <<>>
    /\ answer_from_staff_db(STAFF_DB, Strip(question)) = None

\* step 2: a school question while there is no knowledge text
AskGate ==
    /\ PastDirectory
    /\ is_school_question(Strip(question)) /\ SCHOOL_KNOWLEDGE = <<>>
    /\ response' = Response(200, <<"school information is not ready yet">>)
    /\ apc' = "done"
    /\ UNCHANGED <<STAFF_DB, SCHOOL_KNOWLEDGE, question, llm_calls,
                   crawlVars, cleanVars>>

\* step 3: call_ollama_chat returns the model's answer
AskModel ==
    /\ PastDirectory
    /\ ~(is_school_question(Strip(question)) /\ SCHOOL_KNOWLEDGE = <<>>)
    /\ llm_calls' = llm_calls + 1
    /\ \E content \in { <<"model answer">>, <<"(model sent an empty answer)">> } :
          response' = Response(200, content)
    /\ apc' = "done"
    /\ UNCHANGED <<STAFF_DB, SCHOOL_KNOWLEDGE, question, crawlVars, cleanVars>>

\* step 3: call_ollama_chat raises (status other than 200, or transport)
AskModelError ==
    /\ PastDirectory
    /\ ~(is_school_question(Strip(question)) /\ SCHOOL_KNOWLEDGE = <<>>)
    /\ llm_calls' = llm_calls + 1
    /\ \E detail \in { <<"Ollama HTTP error">>, <<"Server error">> } :
          response' = Response(500, detail)
    /\ apc' = "done"
    /\ UNCHANGED <<STAFF_DB, SCHOOL_KNOWLEDGE, question, crawlVars, cleanVars>>

NextAsk == AskEmpty \/ AskStaff \/ AskGate \/ AskModel \/ AskModelError

SpecAsk == InitAsk /\ [][NextAsk]_vars

\* a question with a grade/class pattern and the homeroom word
IsHomeroomQuestion(q) == HomeroomCode(Strip(q)) # <<>> /\ InStr(q, DAMIM)

\* the teachers of the directory whose homeroom is the class asked about
HomeroomTeachers(q) ==
    { i \in 1..Len(STAFF_DB.teachers) :
        STAFF_DB.teachers[i].homeroom = HomeroomCode(Strip(q)) }

\* the answer is the homeroom sentence for the class asked about
IsHomeroomReply ==
    LET code == HomeroomCode(Strip(question))
        ts == HomeroomTeachers(question)
    IN  /\ response.status = 200
        /\ IF ts = {} THEN response.body = HomeroomMissing(code[1], code[2])
           ELSE response.body =
                  HomeroomSentence(code[1], code[2],
                                   STAFF_DB.teachers[Least(ts)].name)

\* the subject rule comes first: a subject word and a teacher word, and a
\* teacher of that subject in the directory
SubjectRuleApplies(q) ==
    /\ InStr(q, GYOSA) \/ InStr(q, SEONSAENG)
    /\ \E k \in 1..Len(subject_map) :
          /\ InStr(q, subject_map[k])
          /\ \E i \in 1..Len(STAFF_DB.teachers) :
                STAFF_DB.teachers[i].subject = subject_map[k]

\* C10 (as stated): every homeroom question is answered with the homeroom
\* sentence (the teacher's name, or "not in the data") without a call of the
\* model; the model is called only when the directory gave no answer.
C10_HomeroomNeverReachesModel ==
    apc = "done" =>
        /\ IsHomeroomQuestion(question) => (llm_calls = 0 /\ IsHomeroomReply)
        /\ llm_calls > 0 => answer_from_staff_db(STAFF_DB, question) = None

\* C10 (amended): a homeroom question never reaches the model; it is
\* answered with the homeroom sentence unless the subject rule applies to
\* it, and then with a sentence of the directory; the model is called only
\* when the directory gave no answer.
C10_HomeroomAnsweredByDirectory ==
    apc = "done" =>
        /\ IsHomeroomQuestion(question) =>
              /\ llm_calls = 0
              /\ response.status = 200
              /\ ~SubjectRuleApplies(question) => IsHomeroomReply
              /\ SubjectRuleApplies(question) =>
                    /\ response.body[2] = " teacher is "
        /\ llm_calls > 0 => answer_from_staff_db(STAFF_DB, question) = None

\* the class asked about has no homeroom teacher on record
C10_Witness ==
    /\ apc = "done"
    /\ question = <<"1", HAGNYEON, SP, "3", BAN, SP, DAMIM>>
    /\ HomeroomTeachers(question) = {}
    /\ STAFF_DB.teachers # <<>>
    /\ response.body = HomeroomMissing("1", "3")
    /\ llm_calls = 0

-----------------------------------------------------------------------------
(* clean_lines applied to a text, then to its own result *)

MaxTextLen == 5

Common == {SP, NL, "abc"}
Vocabularies ==
    { Common \cup {"x", TAB},
      Common \cup {"x", CR},
      Common \cup {"Copyright", "Home >"},
      Common \cup {GYEONGNAM, GYOYUKCHEONG},
      Common \cup {JEONHWA, "-"},
      Common \cup {PAEKSEU, "-"},
      Common \cup {MUDAN, JAEBAEPO},
      Common \cup {HOM, "x"} }

Texts == UNION { [1..n -> v] : n \in 0..MaxTextLen, v \in Vocabularies }

InitClean ==
    /\ text \in Texts
    /\ once = None /\ twice = None /\ cpc = "start"
    /\ IdleCrawl /\ IdleAsk

CleanOnce ==
    /\ cpc = "start"
    /\ once' = clean_lines(text)
    /\ cpc' = "once"
    /\ UNCHANGED <<text, twice, crawlVars, askVars>>

CleanTwice ==
    /\ cpc = "once"
    /\ twice' = clean_lines(once)
    /\ cpc' = "twice"
    /\ UNCHANGED <<text, once, crawlVars, askVars>>

NextClean == CleanOnce \/ CleanTwice

SpecClean == InitClean /\ [][NextClean]_vars

HasVisibleChar(t) == \E i \in 1..Len(t) : ~IsSpace(t[i])

\* C3 (as stated): clean_lines never returns the empty string for a
\* non-empty input, whitespace-only inputs included.
C3_NeverEmptyForNonEmpty ==
    (cpc # "start" /\ text # <<>>) => once # <<>>

\* C3 (amended): for every input holding at least one non-whitespace
\* character, clean_lines returns a string of at least one character.
C3_NeverEmptyForVisible ==
    (cpc # "start" /\ HasVisibleChar(text)) => (once # <<>> /\ StrLen(once) >= 1)

\* every line of the input is dropped, the input is not blank: the fallback
C3_Witness ==
    /\ cpc = "once"
    /\ text = <<SP, "Copyright", NL, "Home >", NL>>
    /\ once = <<"Copyright", NL, "Home >">>

\* C4: clean_lines(clean_lines(t)) = clean_lines(t) for every text t, on the
\* path where lines are kept and on the fallback path.
C4_Idempotent ==
    (cpc = "twice") => (twice = once)

\* a dropped line between two identical lines: the second one is dropped too
C4_Witness ==
    /\ cpc = "twice"
    /\ text = <<"abc", NL, "Copyright", NL, "abc">>
    /\ once = <<"abc">>

====
